---- MODULE Spec2Model ----
(***************************************************************************)
(* Model of apps/fastapi-inference/app.py: the /generate handler with its  *)
(* Ollama adapter and Bedrock placeholder fallback, the /health handler    *)
(* and the lifespan of the shared httpx client.                            *)
(*                                                                         *)
(* A step of the model is the code a coroutine runs between two awaits.    *)
(* Text is a sequence of pieces: a piece is either a whitespace character  *)
(* or a run of non-whitespace characters, so str.split() can be computed.  *)
(* latency_ms and timestamp (wall clock readings) are left out.            *)
(***************************************************************************)
EXTENDS Integers, Sequences, FiniteSets, TLC

\* ------------------------------------------------------------------ bounds
MaxPromptLen == 1
MaxTextLen == 3

\* two requests in the process at once: the least number that interleaves
Requests == {1, 2}

\* ------------------------------------------------------------------- text
Whitespace == {" "}
PromptPieces == {"hello", " "}
Prompts == UNION {[1..n -> PromptPieces] : n \in 0..MaxPromptLen}

\* str.split(" "): one field more than there are spaces, empty fields included
split_single_space(text) ==
    [i \in 1..(Cardinality({j \in 1..Len(text) : text[j] = " "}) + 1) |-> <<>>]

RECURSIVE split(_)
\* str.split() without arguments: the maximal runs of non-whitespace
split(text) ==
    IF text = <<>> THEN <<>>
    ELSE IF Head(text) \in Whitespace THEN split(Tail(text))
    ELSE LET rest == split(Tail(text))
         IN  IF Len(text) > 1 /\ text[2] \notin Whitespace
             THEN <<<<Head(text)>> \o Head(rest)>> \o Tail(rest)
             ELSE <<<<Head(text)>>>> \o rest

\* str(e): starlette's HTTPException prints "<status_code>: <detail>",
\* every other exception prints its message
str(e) ==
    IF e.type = "HTTPException"
    THEN <<ToString(e.status_code), ": ">> \o e.detail
    ELSE e.msg

HTTPException(status_code, detail) ==
    [type |-> "HTTPException", status_code |-> status_code, detail |-> detail]

\* ---------------------------------------------------------- configuration
DEFAULT_MODEL == "llama3"
DEFAULT_MAX_TOKENS == 100
DEFAULT_TEMPERATURE == "0.7"

\* ------------------------------------------------------ the outside world
\* what the Ollama server can answer to POST /api/generate
NotJson == [json |-> "invalid"]
JsonNoField == [json |-> "object", has_response |-> FALSE]
JsonResponse(t) == [json |-> "object", has_response |-> TRUE, response |-> t]
JsonArray == [json |-> "array"]
OllamaTexts == {<<>>, <<"hi", " ", "there">>}
Bodies == {NotJson, JsonNoField, JsonArray} \cup {JsonResponse(t) : t \in OllamaTexts}
HttpResponses ==
    {[status_code |-> 200, text |-> <<"raw">>, body |-> b] : b \in Bodies}
    \cup {[status_code |-> 503, text |-> <<"overloaded">>, body |-> NotJson]}

\* what the Ollama server can answer to GET /api/tags
TagsResponses ==
    {[status_code |-> c, text |-> <<"tags">>, body |-> NotJson] : c \in {200, 503}}

\* what the transport can raise while a call is awaited
ConnectError == [type |-> "ConnectError", msg |-> <<"All connection attempts failed">>]
ReadTimeout == [type |-> "ReadTimeout", msg |-> <<>>]
TransportErrors == {ConnectError, ReadTimeout}

\* what using the client raises when it cannot send at all
NoneTypeError(method) ==
    [type |-> "AttributeError",
     msg |-> <<"'NoneType' object has no attribute '", method, "'">>]
ClientClosedError ==
    [type |-> "RuntimeError",
     msg |-> <<"Cannot send a request, as the client has been closed.">>]

VARIABLES
    http_client,       \* "None", "open" or "closed": the global of line 54
    lifespan_pc,       \* "start", "yielded" or "stopped"
    BEDROCK_FALLBACK,  \* the flag of line 20, read once from the environment
    pc,                \* per request: where generate_text is suspended
    request,           \* per request: the GenerateRequest
    inflight,          \* per request: the backends with a call in flight
    calls,             \* per request: invocations of each adapter
    posts,             \* per request: outbound POSTs issued
    payload,           \* per request: the JSON body of the POST that left
    posted,            \* per request: what the awaited POST did
    attempts,          \* per request: the adapters' completions, in order
    outcome,           \* per request: what generate_text returned or raised
    health_pc,         \* "idle", "probing" or "done"
    health_probe,      \* what the probe of the last health check did
    health_report      \* what health_check returned

vars == <<http_client, lifespan_pc, BEDROCK_FALLBACK, pc, request, inflight,
          calls, posts, payload, posted, attempts, outcome,
          health_pc, health_probe, health_report>>

generate_vars ==
    <<pc, request, inflight, calls, posts, payload, posted, attempts, outcome>>
health_vars == <<health_pc, health_probe, health_report>>

NoRequest ==
    [prompt |-> <<>>, model |-> "", max_tokens |-> 0, temperature |-> "",
     stream |-> FALSE]
NoOutcome == [kind |-> "none"]
NotYet == [kind |-> "none"]

Init ==
    /\ http_client = "None"
    /\ lifespan_pc = "start"
    /\ BEDROCK_FALLBACK \in BOOLEAN
    /\ pc = [r \in Requests |-> "idle"]
    /\ request = [r \in Requests |-> NoRequest]
    /\ inflight = [r \in Requests |-> {}]
    /\ calls = [r \in Requests |-> [ollama |-> 0, bedrock |-> 0]]
    /\ posts = [r \in Requests |-> 0]
    /\ payload = [r \in Requests |-> NotYet]
    /\ posted = [r \in Requests |-> NotYet]
    /\ attempts = [r \in Requests |-> <<>>]
    /\ outcome = [r \in Requests |-> NoOutcome]
    /\ health_pc = "idle"
    /\ health_probe = NotYet
    /\ health_report = NoOutcome

\* --------------------------------------------------------------- lifespan
\* lines 59-63: startup creates the client
Startup ==
    /\ lifespan_pc = "start"
    /\ http_client' = "open"
    /\ lifespan_pc' = "yielded"
    /\ UNCHANGED <<BEDROCK_FALLBACK, generate_vars, health_vars>>

\* lines 64-67: shutdown closes the client if there is one
Shutdown ==
    /\ lifespan_pc = "yielded"
    /\ http_client' = IF http_client # "None" THEN "closed" ELSE http_client
    /\ lifespan_pc' = "stopped"
    /\ UNCHANGED <<BEDROCK_FALLBACK, generate_vars, health_vars>>

\* ---------------------------------------------------------------- results
Return(v) == [ok |-> TRUE, value |-> v]
Raise(e) == [ok |-> FALSE, exc |-> e]

GenerateResponse(text, model, tokens_used, source) ==
    [text |-> text, model |-> model, tokens_used |-> tokens_used, source |-> source]

\* the HTTP answer of the framework to a handler that returned v
Respond200(v) == [kind |-> "ok", status_code |-> 200, body |-> v]
\* the HTTP answer of the framework to a handler that raised an HTTPException
RespondError(e) == [kind |-> "error", status_code |-> e.status_code, detail |-> e.detail]
\* a handler whose task was cancelled answers nothing
Cancelled == [kind |-> "cancelled"]

\* ----------------------------------------------------- generate_with_ollama
\* lines 138-153: the try block after the POST has returned
ollama_try(req, response) ==
    IF response.status_code # 200
    THEN Raise(HTTPException(response.status_code,
                             <<"Ollama error: ">> \o response.text))
    ELSE IF response.body.json = "invalid"
    THEN Raise([type |-> "JSONDecodeError", msg |-> <<"Expecting value">>])
    ELSE IF response.body.json = "array"
    THEN Raise([type |-> "AttributeError",
                msg |-> <<"'list' object has no attribute '", "get", "'">>])
    ELSE LET text == IF response.body.has_response
                     THEN response.body.response
                     ELSE <<>>
         IN  Return(GenerateResponse(text, req.model, Len(split(text)), "ollama"))

\* lines 155-159: every exception of the try block is wrapped in a 500
ollama_except(e) ==
    HTTPException(500, <<"Ollama generation failed: ">> \o str(e))

\* the JSON body of the POST with the stream flag of the request passed on
ollama_payload_streams(req) ==
    [model |-> req.model,
     prompt |-> req.prompt,
     stream |-> req.stream,
     options |-> [num_predict |-> req.max_tokens,
                  temperature |-> req.temperature]]

\* lines 124-132: the JSON body of the POST
ollama_payload(req) ==
    [model |-> req.model,
     prompt |-> req.prompt,
     stream |-> FALSE,
     options |-> [num_predict |-> req.max_tokens,
                  temperature |-> req.temperature]]

\* lines 119-159 from the point where the POST returned or raised
generate_with_ollama(req, sent) ==
    LET tried == IF sent.ok THEN ollama_try(req, sent.value) ELSE sent
    IN  IF tried.ok THEN tried ELSE Raise(ollama_except(tried.exc))

\* ------------------------------------------- generate_with_bedrock_fallback
\* the placeholder answer tagged with the primary's name
bedrock_tagged_ollama(req) ==
    LET fallback_response ==
            <<"[BEDROCK", " ", "FALLBACK]", " ", "Response", " ", "to:", " ">>
            \o req.prompt
    IN  Return(GenerateResponse(fallback_response, "bedrock-claude",
                                Len(split(fallback_response)), "ollama"))

\* the placeholder refusing an empty prompt
bedrock_rejects_empty(req) ==
    IF req.prompt = <<>>
    THEN Raise([type |-> "ValueError", msg |-> <<"empty prompt">>])
    ELSE LET fallback_response ==
                 <<"[BEDROCK", " ", "FALLBACK]", " ", "Response", " ", "to:", " ">>
                 \o req.prompt
         IN  Return(GenerateResponse(fallback_response, "bedrock-claude",
                                     Len(split(fallback_response)), "bedrock"))

\* lines 169-178: the placeholder answer, built after the sleep
generate_with_bedrock_fallback(req) ==
    LET fallback_response ==
            <<"[BEDROCK", " ", "FALLBACK]", " ", "Response", " ", "to:", " ">>
            \o req.prompt
    IN  Return(GenerateResponse(fallback_response, "bedrock-claude",
                                Len(split(fallback_response)), "bedrock"))

\* ------------------------------------------------------------ generate_text
Local(r) ==
    [pc |-> pc[r], inflight |-> inflight[r], calls |-> calls[r],
     posts |-> posts[r], attempts |-> attempts[r], outcome |-> outcome[r]]

\* the answer kept in one place for all requests
SetLocal_shared(r, L) ==
    /\ pc' = [pc EXCEPT ![r] = L.pc]
    /\ inflight' = [inflight EXCEPT ![r] = L.inflight]
    /\ calls' = [calls EXCEPT ![r] = L.calls]
    /\ posts' = [posts EXCEPT ![r] = L.posts]
    /\ attempts' = [attempts EXCEPT ![r] = L.attempts]
    /\ outcome' = [q \in Requests |-> IF L.outcome = NoOutcome
                                       THEN outcome[q] ELSE L.outcome]

\* the locals of generate_text for request r after a step
SetLocal(r, L) ==
    /\ pc' = [pc EXCEPT ![r] = L.pc]
    /\ inflight' = [inflight EXCEPT ![r] = L.inflight]
    /\ calls' = [calls EXCEPT ![r] = L.calls]
    /\ posts' = [posts EXCEPT ![r] = L.posts]
    /\ attempts' = [attempts EXCEPT ![r] = L.attempts]
    /\ outcome' = [outcome EXCEPT ![r] = L.outcome]

Attempt(backend, result) == [backend |-> backend, result |-> result]

\* the fallback started together with the POST (hedging)
post_sent_hedged(L) ==
    [L EXCEPT !.posts = @ + 1,
              !.calls.bedrock = @ + 1,
              !.inflight = @ \cup {"ollama", "bedrock"},
              !.pc = "ollama_post"]

\* line 134: the POST leaves; the coroutine is suspended on it
post_sent(L) ==
    [L EXCEPT !.posts = @ + 1,
              !.inflight = @ \cup {"ollama"},
              !.pc = "ollama_post"]

\* line 134 resumed: the awaited POST is over, with a response or an exception
post_over(L) ==
    [L EXCEPT !.inflight = @ \ {"ollama"}]

\* lines 204 and 167: the fallback adapter is called and sleeps
bedrock_called(L) ==
    [L EXCEPT !.calls.bedrock = @ + 1,
              !.inflight = @ \cup {"bedrock"},
              !.pc = "bedrock_sleep"]

\* the except branch with the test of the flag inverted
generate_text_except_inverted(L, e, fallback) ==
    IF ~fallback
    THEN bedrock_called(L)
    ELSE [L EXCEPT !.pc = "done",
                   !.outcome = RespondError(HTTPException(500,
                       <<"Ollama failed and Bedrock fallback disabled: ">>
                       \o str(e)))]

\* the except branch without the test of the flag
generate_text_except_always(L, e, fallback) ==
    bedrock_called(L)

\* the except branch raising the primary's error again when fallback is off
generate_text_except_reraise(L, e, fallback) ==
    IF fallback
    THEN bedrock_called(L)
    ELSE [L EXCEPT !.pc = "done", !.outcome = RespondError(e)]

\* the except branch calling the primary a second time before giving up
generate_text_except_retry(L, e, fallback) ==
    IF L.calls.ollama < 2
    THEN post_sent([L EXCEPT !.calls.ollama = @ + 1])
    ELSE IF fallback
    THEN bedrock_called(L)
    ELSE [L EXCEPT !.pc = "done",
                   !.outcome = RespondError(HTTPException(500,
                       <<"Ollama failed and Bedrock fallback disabled: ">>
                       \o str(e)))]

\* lines 197-216: the except branch of generate_text, up to its next await;
\* e is what generate_with_ollama raised
generate_text_except(L, e, fallback) ==
    IF fallback
    THEN bedrock_called(L)
    ELSE [L EXCEPT !.pc = "done",
                   !.outcome = RespondError(HTTPException(500,
                       <<"Ollama failed and Bedrock fallback disabled: ">>
                       \o str(e)))]

\* generate_text taking an empty answer of the primary for a failure
generate_text_resume_empty_fails(L, result, fallback) ==
    LET M == [L EXCEPT !.attempts = Append(@, Attempt("ollama", result))]
    IN  IF result.ok /\ result.value.text # <<>>
        THEN [M EXCEPT !.pc = "done", !.outcome = Respond200(result.value)]
        ELSE generate_text_except(M,
                 IF result.ok THEN HTTPException(500, <<"empty response">>)
                 ELSE result.exc,
                 fallback)

\* lines 195-216 from the point where generate_with_ollama is over
generate_text_resume(L, result, fallback) ==
    LET M == [L EXCEPT !.attempts = Append(@, Attempt("ollama", result))]
    IN  IF result.ok
        THEN [M EXCEPT !.pc = "done", !.outcome = Respond200(result.value)]
        ELSE generate_text_except(M, result.exc, fallback)

\* the placeholder sleeping again instead of answering
fallback_sleeps_on(L, e, result) ==
    [L EXCEPT !.pc = "bedrock_sleep"]

\* lines 203-211 from the point where the fallback adapter is over;
\* e is what generate_with_ollama had raised
generate_text_fallback_over(L, e, result) ==
    LET M == [L EXCEPT !.inflight = @ \ {"bedrock"},
                       !.attempts = Append(@, Attempt("bedrock", result))]
    IN  IF result.ok
        THEN [M EXCEPT !.pc = "done", !.outcome = Respond200(result.value)]
        ELSE [M EXCEPT !.pc = "done",
                       !.outcome = RespondError(HTTPException(500,
                           <<"All inference backends failed. Ollama: ">>
                           \o str(e) \o <<", Bedrock: ">>
                           \o str(result.exc)))]

Models == {DEFAULT_MODEL}
MaxTokens == {DEFAULT_MAX_TOKENS}
Temperatures == {DEFAULT_TEMPERATURE}

\* the handler answering 503 itself while the client is missing or closed
GenerateStart_not_ready(r) ==
    /\ pc[r] = "idle"
    /\ \E p \in Prompts, m \in Models, n \in MaxTokens, t \in Temperatures,
          s \in BOOLEAN :
        LET req == [prompt |-> p, model |-> m, max_tokens |-> n,
                    temperature |-> t, stream |-> s]
            L == [Local(r) EXCEPT !.calls.ollama = @ + 1]
        IN  /\ request' = [request EXCEPT ![r] = req]
            /\ payload' = [payload EXCEPT ![r] = IF http_client = "open"
                                                 THEN ollama_payload(req)
                                                 ELSE @]
            /\ posted' = posted
            /\ SetLocal(r,
                 IF http_client = "open"
                 THEN post_sent(L)
                 ELSE [Local(r) EXCEPT
                          !.pc = "done",
                          !.outcome = RespondError(HTTPException(503,
                                          <<"Service not ready">>))])
    /\ UNCHANGED <<http_client, lifespan_pc, BEDROCK_FALLBACK, health_vars>>

\* lines 183-196 and 119-136: a request arrives, the primary adapter is called
\* and either suspends on its POST or cannot use the client at all
GenerateStart(r) ==
    /\ pc[r] = "idle"
    /\ \E p \in Prompts, m \in Models, n \in MaxTokens, t \in Temperatures,
          s \in BOOLEAN :
        LET req == [prompt |-> p, model |-> m, max_tokens |-> n,
                    temperature |-> t, stream |-> s]
            L == [Local(r) EXCEPT !.calls.ollama = @ + 1]
        IN  /\ request' = [request EXCEPT ![r] = req]
            /\ payload' = [payload EXCEPT ![r] = IF http_client = "open"
                                                 THEN ollama_payload(req)
                                                 ELSE @]
            /\ posted' = posted
            /\ SetLocal(r,
                 IF http_client = "open"
                 THEN post_sent(L)
                 ELSE generate_text_resume(L,
                        generate_with_ollama(req,
                            Raise(IF http_client = "None"
                                  THEN NoneTypeError("post")
                                  ELSE ClientClosedError)),
                        BEDROCK_FALLBACK))
    /\ UNCHANGED <<http_client, lifespan_pc, BEDROCK_FALLBACK, health_vars>>

\* line 134 resumed with a response of the server
PostReturns(r) ==
    /\ pc[r] = "ollama_post"
    /\ \E response \in HttpResponses :
        /\ posted' = [posted EXCEPT ![r] = Return(response)]
        /\ SetLocal(r, generate_text_resume(post_over(Local(r)),
                          generate_with_ollama(request[r], Return(response)),
                          BEDROCK_FALLBACK))
    /\ UNCHANGED <<http_client, lifespan_pc, BEDROCK_FALLBACK, request, payload,
                   health_vars>>

\* line 134 resumed with a transport error or the 30 s timeout
PostRaises(r) ==
    /\ pc[r] = "ollama_post"
    /\ \E e \in TransportErrors :
        /\ posted' = [posted EXCEPT ![r] = Raise(e)]
        /\ SetLocal(r, generate_text_resume(post_over(Local(r)),
                          generate_with_ollama(request[r], Raise(e)),
                          BEDROCK_FALLBACK))
    /\ UNCHANGED <<http_client, lifespan_pc, BEDROCK_FALLBACK, request, payload,
                   health_vars>>

\* line 167 resumed: the sleep is over, the placeholder answers
BedrockWakes(r) ==
    /\ pc[r] = "bedrock_sleep"
    /\ SetLocal(r, generate_text_fallback_over(Local(r),
                       attempts[r][Len(attempts[r])].result.exc,
                       generate_with_bedrock_fallback(request[r])))
    /\ UNCHANGED <<http_client, lifespan_pc, BEDROCK_FALLBACK, request, payload,
                   posted, health_vars>>

CancelledError == [type |-> "CancelledError", msg |-> <<>>]

\* the cancellation caught like an Exception of the awaited call
Cancel_caught(r) ==
    /\ pc[r] \in {"ollama_post", "bedrock_sleep"}
    /\ SetLocal(r,
         IF pc[r] = "ollama_post"
         THEN generate_text_resume(post_over(Local(r)),
                  generate_with_ollama(request[r], Raise(CancelledError)),
                  BEDROCK_FALLBACK)
         ELSE generate_text_fallback_over(Local(r),
                  attempts[r][Len(attempts[r])].result.exc,
                  Raise(CancelledError)))
    /\ UNCHANGED <<http_client, lifespan_pc, BEDROCK_FALLBACK, request, payload,
                   posted, health_vars>>

\* the task of a suspended request is cancelled: CancelledError is raised at
\* the await; it is no Exception, so lines 155 and 197 do not catch it
Cancel(r) ==
    /\ pc[r] \in {"ollama_post", "bedrock_sleep"}
    /\ SetLocal(r, [Local(r) EXCEPT !.pc = "cancelled",
                                    !.inflight = {},
                                    !.outcome = Cancelled])
    /\ UNCHANGED <<http_client, lifespan_pc, BEDROCK_FALLBACK, request, payload,
                   posted, health_vars>>

\* ------------------------------------------------------------- health_check
HealthResponse(status, services) == [status |-> status, services |-> services]

\* the entry of the Ollama probe without the cause of an exception
health_entry_no_cause(probe) ==
    IF probe.ok /\ probe.value.status_code = 200
    THEN <<"healthy">>
    ELSE <<"unhealthy">>

\* lines 95-99: the entry of the Ollama probe
health_entry(probe) ==
    IF probe.ok
    THEN IF probe.value.status_code = 200 THEN <<"healthy">> ELSE <<"unhealthy">>
    ELSE <<"unhealthy: ">> \o str(probe.exc)

\* health_check letting the exception of the probe escape
health_check_propagates(probe) ==
    IF probe.ok
    THEN Respond200(HealthResponse(<<"healthy">>, [ollama |-> health_entry(probe)]))
    ELSE RespondError(HTTPException(500, str(probe.exc)))

\* lines 92-101 from the point where the probe returned or raised
health_check(probe) ==
    Respond200(HealthResponse(<<"healthy">>, [ollama |-> health_entry(probe)]))

\* lines 90-96: a health check arrives and either suspends on its GET or
\* cannot use the client at all
HealthStart ==
    /\ health_pc = "idle"
    /\ IF http_client = "open"
       THEN /\ health_pc' = "probing"
            /\ UNCHANGED <<health_probe, health_report>>
       ELSE LET probe == Raise(IF http_client = "None"
                               THEN NoneTypeError("get")
                               ELSE ClientClosedError)
            IN  /\ health_pc' = "done"
                /\ health_probe' = probe
                /\ health_report' = health_check(probe)
    /\ UNCHANGED <<http_client, lifespan_pc, BEDROCK_FALLBACK, generate_vars>>

\* line 96 resumed with a response of the server
ProbeReturns ==
    /\ health_pc = "probing"
    /\ \E response \in TagsResponses :
        /\ health_probe' = Return(response)
        /\ health_report' = health_check(Return(response))
    /\ health_pc' = "done"
    /\ UNCHANGED <<http_client, lifespan_pc, BEDROCK_FALLBACK, generate_vars>>

\* line 96 resumed with a transport error or the 5 s timeout
ProbeRaises ==
    /\ health_pc = "probing"
    /\ \E e \in TransportErrors :
        /\ health_probe' = Raise(e)
        /\ health_report' = health_check(Raise(e))
    /\ health_pc' = "done"
    /\ UNCHANGED <<http_client, lifespan_pc, BEDROCK_FALLBACK, generate_vars>>

Next ==
    \/ Startup
    \/ Shutdown
    \/ \E r \in Requests : GenerateStart(r)
    \/ \E r \in Requests : PostReturns(r)
    \/ \E r \in Requests : PostRaises(r)
    \/ \E r \in Requests : BedrockWakes(r)
    \/ \E r \in Requests : Cancel(r)
    \/ HealthStart
    \/ ProbeReturns
    \/ ProbeRaises

Spec == Init /\ [][Next]_vars

\* Every awaited call ends: the POST returns or raises within its 30 s
\* timeout, the sleep of the placeholder is over after 0.1 s, and the event
\* loop resumes the coroutine.
\* One generate request beside the lifespan and a health check, with every
\* awaited call ending: the POST returns or raises within its 30 s timeout,
\* the sleep of the placeholder is over after 0.1 s, and the event loop
\* resumes the coroutine. Steps of other requests leave the request as it is
\* (C17), so they are left out.
NextOne ==
    \/ Startup
    \/ Shutdown
    \/ GenerateStart(1)
    \/ PostReturns(1)
    \/ PostRaises(1)
    \/ BedrockWakes(1)
    \/ Cancel(1)
    \/ HealthStart
    \/ ProbeReturns
    \/ ProbeRaises

FairSpec ==
    /\ Init
    /\ [][NextOne]_vars
    /\ WF_vars(PostReturns(1) \/ PostRaises(1))
    /\ WF_vars(BedrockWakes(1))

\* ------------------------------------------------- the adapters on their own
\* One call of one adapter on request 1, for every request the model accepts
\* and every answer of the Ollama server.
Texts == UNION {[1..n -> PromptPieces] : n \in 0..MaxTextLen}
AdapterRequests ==
    [prompt : Texts,
     model : {DEFAULT_MODEL, "mistral"},
     max_tokens : {DEFAULT_MAX_TOKENS, 1},
     temperature : {DEFAULT_TEMPERATURE, "0.0"},
     stream : BOOLEAN]
AdapterResponses ==
    HttpResponses
    \cup {[status_code |-> 200, text |-> <<"raw">>, body |-> JsonResponse(t)] :
             t \in Texts}

InitAdapters ==
    /\ http_client = "open"
    /\ lifespan_pc = "yielded"
    /\ BEDROCK_FALLBACK \in BOOLEAN
    /\ pc = [r \in Requests |-> "idle"]
    /\ \E req \in AdapterRequests :
          request = [r \in Requests |-> IF r = 1 THEN req ELSE NoRequest]
    /\ inflight = [r \in Requests |-> {}]
    /\ calls = [r \in Requests |-> [ollama |-> 0, bedrock |-> 0]]
    /\ posts = [r \in Requests |-> 0]
    /\ payload = [r \in Requests |-> NotYet]
    /\ posted = [r \in Requests |-> NotYet]
    /\ attempts = [r \in Requests |-> <<>>]
    /\ outcome = [r \in Requests |-> NoOutcome]
    /\ health_pc = "idle"
    /\ health_probe = NotYet
    /\ health_report = NoOutcome

\* lines 119-159: generate_with_ollama(request) run to its end
CallOllama ==
    /\ pc[1] = "idle"
    /\ \E sent \in {Return(response) : response \in AdapterResponses}
                   \cup {Raise(e) : e \in TransportErrors} :
        /\ posted' = [posted EXCEPT ![1] = sent]
        /\ attempts' = [attempts EXCEPT ![1] =
                           <<Attempt("ollama", generate_with_ollama(request[1], sent))>>]
    /\ payload' = [payload EXCEPT ![1] = ollama_payload(request[1])]
    /\ calls' = [calls EXCEPT ![1].ollama = @ + 1]
    /\ posts' = [posts EXCEPT ![1] = @ + 1]
    /\ pc' = [pc EXCEPT ![1] = "done"]
    /\ UNCHANGED <<http_client, lifespan_pc, BEDROCK_FALLBACK, request, inflight,
                   outcome, health_vars>>

\* lines 162-178: generate_with_bedrock_fallback(request) run to its end
CallBedrock ==
    /\ pc[1] = "idle"
    /\ attempts' = [attempts EXCEPT ![1] =
                       <<Attempt("bedrock", generate_with_bedrock_fallback(request[1]))>>]
    /\ calls' = [calls EXCEPT ![1].bedrock = @ + 1]
    /\ pc' = [pc EXCEPT ![1] = "done"]
    /\ UNCHANGED <<http_client, lifespan_pc, BEDROCK_FALLBACK, request, inflight,
                   posts, payload, posted, outcome, health_vars>>

NextAdapters == CallOllama \/ CallBedrock

SpecAdapters == InitAdapters /\ [][NextAdapters]_vars

\* ================================================================ properties
\* the primary attempt of request r is over
PrimaryOver(r) == Len(attempts[r]) >= 1
PrimaryResult(r) == attempts[r][1].result
PrimarySucceeded(r) == PrimaryOver(r) /\ PrimaryResult(r).ok
PrimaryFailed(r) == PrimaryOver(r) /\ ~PrimaryResult(r).ok
LastAttempt(r) == attempts[r][Len(attempts[r])]

\* the (backend, cause) records a failure detail enumerates
AttemptRecords(detail) ==
    IF detail # <<>> /\ detail[1] = "Ollama failed and Bedrock fallback disabled: "
    THEN <<[backend |-> "Ollama", cause |-> Tail(detail)]>>
    ELSE IF detail # <<>> /\ detail[1] = "All inference backends failed. Ollama: "
              /\ \E i \in 2..Len(detail) : detail[i] = ", Bedrock: "
    THEN LET i == CHOOSE i \in 2..Len(detail) :
                      /\ detail[i] = ", Bedrock: "
                      /\ \A j \in 2..(i - 1) : detail[j] # ", Bedrock: "
         IN  <<[backend |-> "Ollama", cause |-> SubSeq(detail, 2, i - 1)],
               [backend |-> "Bedrock", cause |-> SubSeq(detail, i + 1, Len(detail))]>>
    ELSE <<>>

\* text ends with suffix
EndsWith(text, suffix) ==
    /\ Len(suffix) <= Len(text)
    /\ SubSeq(text, Len(text) - Len(suffix) + 1, Len(text)) = suffix

\* C1: whenever the primary (Ollama) adapter of a request has succeeded, the
\* request is over with the primary's result, tagged "ollama", and the
\* fallback adapter was never invoked for it, whatever BEDROCK_FALLBACK is.
C1_PrimarySuccessNoFallback ==
    \A r \in Requests :
        PrimarySucceeded(r) =>
            /\ calls[r].bedrock = 0
            /\ "bedrock" \notin inflight[r]
            /\ Len(attempts[r]) = 1
            /\ pc[r] = "done"
            /\ outcome[r].kind = "ok"
            /\ outcome[r].body = PrimaryResult(r).value
            /\ outcome[r].body.source = "ollama"

C1_Witness ==
    \E r \in Requests :
        /\ BEDROCK_FALLBACK
        /\ PrimarySucceeded(r)
        /\ pc[r] = "done"
        /\ outcome[r].kind = "ok"
        /\ outcome[r].body.source = "ollama"

\* C2: whenever the primary adapter of a request has failed and fallback is
\* enabled, the fallback adapter has been invoked exactly once, only after the
\* primary attempt was over, and a request that returns returns the fallback
\* adapter's result, tagged "bedrock".
C2_FallbackOnceAfterPrimaryFailure ==
    \A r \in Requests :
        /\ calls[r].bedrock > 0 => PrimaryFailed(r)
        /\ (BEDROCK_FALLBACK /\ PrimaryFailed(r)) =>
              /\ calls[r].bedrock = 1
              /\ pc[r] \in {"bedrock_sleep", "done", "cancelled"}
              /\ pc[r] = "done" =>
                    /\ Len(attempts[r]) = 2
                    /\ attempts[r][2].backend = "bedrock"
                    /\ attempts[r][2].result.ok
                    /\ outcome[r].kind = "ok"
                    /\ outcome[r].body = attempts[r][2].result.value
                    /\ outcome[r].body.source = "bedrock"

C2_Witness ==
    \E r \in Requests :
        /\ BEDROCK_FALLBACK
        /\ PrimaryFailed(r)
        /\ posts[r] = 1
        /\ pc[r] = "done"
        /\ calls[r].bedrock = 1
        /\ outcome[r].kind = "ok"
        /\ outcome[r].body.source = "bedrock"

\* C3: whenever the primary adapter of a request has failed and fallback is
\* disabled, the request is over at once with a failure whose detail
\* enumerates exactly one attempt, the primary's name with its cause (ending
\* in the transport error's message or the raw body of a non-200 response),
\* and the fallback adapter was never invoked.
C3_DisabledFallbackSingleAttempt ==
    \A r \in Requests :
        (~BEDROCK_FALLBACK /\ PrimaryFailed(r)) =>
            /\ pc[r] = "done"
            /\ calls[r].bedrock = 0
            /\ "bedrock" \notin inflight[r]
            /\ Len(attempts[r]) = 1
            /\ outcome[r].kind = "error"
            /\ AttemptRecords(outcome[r].detail)
                   = <<[backend |-> "Ollama", cause |-> str(PrimaryResult(r).exc)]>>
            /\ ("ok" \in DOMAIN posted[r] /\ ~posted[r].ok) =>
                  EndsWith(outcome[r].detail, posted[r].exc.msg)
            /\ ("ok" \in DOMAIN posted[r] /\ posted[r].ok
                    /\ posted[r].value.status_code # 200) =>
                  EndsWith(outcome[r].detail, posted[r].value.text)

C3_Witness ==
    \E r \in Requests :
        /\ ~BEDROCK_FALLBACK
        /\ PrimaryFailed(r)
        /\ posts[r] = 1
        /\ pc[r] = "done"
        /\ outcome[r].kind = "error"
        /\ Len(AttemptRecords(outcome[r].detail)) = 1

\* The fallback adapter has no failing path (lines 162-178), so no request
\* ever records a failed second attempt: lines 205-211 are never entered.
FallbackNeverFails ==
    \A r \in Requests :
        \A i \in 1..Len(attempts[r]) :
            attempts[r][i].backend = "bedrock" => attempts[r][i].result.ok

\* the text the backend of a successful attempt actually sent
ProducedText(r, backend) ==
    IF backend = "ollama"
    THEN IF posted[r].value.body.has_response
         THEN posted[r].value.body.response
         ELSE <<>>
    ELSE <<"[BEDROCK", " ", "FALLBACK]", " ", "Response", " ", "to:", " ">>
         \o request[r].prompt

\* C5: in every reachable state, a result returned by generate_text is the
\* result of the request's last attempt, that attempt succeeded, and the
\* result's source is the name of the backend of that attempt and its text the
\* text that backend produced.
C5_SourceIsProducer ==
    \A r \in Requests :
        outcome[r].kind = "ok" =>
            /\ attempts[r] # <<>>
            /\ LastAttempt(r).result.ok
            /\ outcome[r].body = LastAttempt(r).result.value
            /\ outcome[r].body.source = LastAttempt(r).backend
            /\ outcome[r].body.text = ProducedText(r, LastAttempt(r).backend)
            /\ \A i \in 1..(Len(attempts[r]) - 1) : ~attempts[r][i].result.ok

C5_Witness ==
    \E r \in Requests :
        /\ outcome[r].kind = "ok"
        /\ Len(attempts[r]) = 2
        /\ ~attempts[r][1].result.ok
        /\ outcome[r].body.source = "bedrock"

\* a response of the Ollama server that is a well-formed success
WellFormedSuccess(p) ==
    /\ p.ok
    /\ p.value.status_code = 200
    /\ p.value.body.json = "object"
    /\ p.value.body.has_response

\* C6: once the POST of the primary adapter is over, the adapter returns a
\* result only for a well-formed success response (status 200, a JSON object
\* with the "response" field); for every other outcome it raises an error
\* that carries the cause.
C6_ResultOnlyForWellFormedSuccess ==
    \A r \in Requests :
        ("ok" \in DOMAIN posted[r] /\ PrimaryOver(r)) =>
            /\ PrimaryResult(r).ok <=> WellFormedSuccess(posted[r])
            /\ ~PrimaryResult(r).ok =>
                  /\ PrimaryResult(r).exc.type = "HTTPException"
                  /\ PrimaryResult(r).exc.detail # <<>>

\* C7: a health check that is over has returned a 200 report whose status is
\* "healthy" whatever the probe did (200, another status, an exception, a
\* timeout, a client that is None or closed); a failure of the probe is in
\* the services mapping as an "unhealthy" entry.
C7_HealthNeverFails ==
    health_pc = "done" =>
        /\ health_report.kind = "ok"
        /\ health_report.status_code = 200
        /\ health_report.body.status = <<"healthy">>
        /\ "ollama" \in DOMAIN health_report.body.services
        /\ ~(health_probe.ok /\ health_probe.value.status_code = 200) =>
              /\ health_report.body.services.ollama # <<"healthy">>
              /\ health_report.body.services.ollama[1] \in {"unhealthy", "unhealthy: "}

C7_Witness ==
    /\ health_pc = "done"
    /\ ~health_probe.ok
    /\ health_probe.exc.type = "AttributeError"
    /\ health_report.kind = "ok"
    /\ health_report.body.status = <<"healthy">>

\* C8: the entry of a backend is "healthy" exactly when its probe returned
\* status 200, and every other outcome gives an entry "unhealthy: <cause>".
C8_UnhealthyCarriesCause ==
    health_pc = "done" =>
        LET entry == health_report.body.services.ollama
            success == health_probe.ok /\ health_probe.value.status_code = 200
        IN  /\ entry = <<"healthy">> <=> success
            /\ ~success => entry[1] = "unhealthy: "

\* C9 as stated: a health check with Ollama unreachable returns a report with
\* an entry for both backends, "unhealthy: ..." for Ollama and "healthy" for
\* Bedrock.
C9_BothBackendsReported ==
    (health_pc = "done" /\ ~health_probe.ok) =>
        /\ health_report.kind = "ok"
        /\ DOMAIN health_report.body.services = {"ollama", "bedrock"}
        /\ health_report.body.services.ollama[1] = "unhealthy: "
        /\ health_report.body.services.bedrock = <<"healthy">>

\* C9 as amended: a health check returns a report with an entry for exactly
\* the one backend that has a probe, Ollama; that entry is "unhealthy: " with
\* the stringified exception when Ollama is unreachable and "healthy" when it
\* answers 200; Bedrock has no entry.
C9_OnlyProbedBackendReported ==
    health_pc = "done" =>
        /\ health_report.kind = "ok"
        /\ DOMAIN health_report.body.services = {"ollama"}
        /\ ~health_probe.ok =>
              health_report.body.services.ollama
                  = <<"unhealthy: ">> \o str(health_probe.exc)
        /\ (health_probe.ok /\ health_probe.value.status_code = 200) =>
              health_report.body.services.ollama = <<"healthy">>

C9_Witness ==
    /\ health_pc = "done"
    /\ health_probe = Raise(ConnectError)
    /\ health_report.body.services.ollama
           = <<"unhealthy: ", "All connection attempts failed">>

\* C10: within one request at most one backend call is in flight; the
\* fallback is in flight only when the primary attempt is over, with a
\* failure, and the POST is no longer in flight.
C10_AttemptsNeverOverlap ==
    \A r \in Requests :
        /\ Cardinality(inflight[r]) <= 1
        /\ "bedrock" \in inflight[r] =>
              /\ PrimaryFailed(r)
              /\ "ollama" \notin inflight[r]
        /\ "ollama" \in inflight[r] => ~PrimaryOver(r)

C10_Witness ==
    \E r \in Requests :
        /\ posts[r] = 1
        /\ posted[r] = Raise(ReadTimeout)
        /\ inflight[r] = {"bedrock"}
        /\ pc[r] = "bedrock_sleep"

\* the step leaves request r cancelled: nothing of it in flight, no adapter
\* called, no attempt recorded, no answer
CancelHandled(r) ==
    /\ pc'[r] = "cancelled"
    /\ inflight'[r] = {}
    /\ calls'[r] = calls[r]
    /\ posts'[r] = posts[r]
    /\ attempts'[r] = attempts[r]
    /\ outcome'[r] = Cancelled

\* C11: a step that ends the await of a request without the awaited call
\* having delivered anything (the POST neither returned nor raised, the sleep
\* gave no fallback result) is a cancellation: it leaves no call of the
\* request in flight, records no backend failure and calls no adapter, and a
\* cancelled request takes no further step.
C11_CancelAbortsWithoutFallback ==
    [][\A r \in Requests :
        /\ (pc[r] = "ollama_post" /\ pc'[r] # pc[r] /\ posted'[r] = posted[r])
              => CancelHandled(r)
        /\ (pc[r] = "bedrock_sleep" /\ pc'[r] # pc[r]
                /\ ~(Len(attempts'[r]) = 2 /\ attempts'[r][2].result.ok))
              => CancelHandled(r)
        /\ pc[r] = "cancelled" =>
              /\ pc'[r] = pc[r] /\ inflight'[r] = {} /\ calls'[r] = calls[r]
              /\ posts'[r] = posts[r] /\ attempts'[r] = attempts[r]
              /\ outcome'[r] = outcome[r]]_vars

C11_Witness ==
    \E r \in Requests :
        /\ BEDROCK_FALLBACK
        /\ pc[r] = "cancelled"
        /\ posts[r] = 1
        /\ inflight[r] = {}
        /\ attempts[r] = <<>>
        /\ calls[r].bedrock = 0

\* the exceptions of a client that is None or closed
ClientUnusableErrors ==
    {NoneTypeError("post"), NoneTypeError("get"), ClientClosedError}

\* C12: the client is created once, by startup, and released once, by
\* shutdown, and no generate or health handler uses it before it is created
\* or after it is released: every call of the primary adapter sends its POST,
\* no probe fails on a missing or closed client, and nothing is in flight on
\* a closed client.
C12_ClientUsedOnlyWhileOpen ==
    /\ lifespan_pc = "start" => http_client = "None"
    /\ lifespan_pc = "yielded" => http_client = "open"
    /\ lifespan_pc = "stopped" => http_client = "closed"
    /\ \A r \in Requests :
        /\ posts[r] = calls[r].ollama
        /\ http_client # "open" => "ollama" \notin inflight[r]
    /\ health_pc = "done" =>
          ~(~health_probe.ok /\ health_probe.exc \in ClientUnusableErrors)
    /\ http_client # "open" => health_pc # "probing"

\* the number of whitespace-separated words of a text: the positions where a
\* run of non-whitespace begins
WordCount(text) ==
    Cardinality({i \in 1..Len(text) :
                    /\ text[i] \notin Whitespace
                    /\ (i = 1 \/ text[i - 1] \in Whitespace)})

\* C13: for every request (any prompt, model, max_tokens, temperature and
\* stream) the fallback adapter returns, never raises; its result is tagged
\* "bedrock", names the model "bedrock-claude", and its text and token count
\* are fixed by the prompt alone: the placeholder prefix followed by the
\* prompt, and the number of words of that text.
C13_FallbackAdapterTotal ==
    \A r \in Requests :
        \A i \in 1..Len(attempts[r]) :
            attempts[r][i].backend = "bedrock" =>
                LET res == attempts[r][i].result
                    text == <<"[BEDROCK", " ", "FALLBACK]", " ", "Response", " ",
                              "to:", " ">> \o request[r].prompt
                IN  /\ res.ok
                    /\ res.value.source = "bedrock"
                    /\ res.value.model = "bedrock-claude"
                    /\ res.value.text = text
                    /\ res.value.tokens_used = WordCount(text)

C13_Witness ==
    /\ attempts[1] # <<>>
    /\ attempts[1][1].backend = "bedrock"
    /\ attempts[1][1].result.ok
    /\ request[1].prompt = <<"hello", " ", "hello">>
    /\ request[1].model = "mistral"
    /\ request[1].max_tokens = 1
    /\ request[1].stream
    /\ attempts[1][1].result.value.tokens_used = 6

\* C14: for every result an adapter returns, tokens_used is the number of
\* whitespace-separated words of the result's text, 0 for a text that is
\* empty or all whitespace.
C14_TokensAreWordCount ==
    \A r \in Requests :
        \A i \in 1..Len(attempts[r]) :
            attempts[r][i].result.ok =>
                LET v == attempts[r][i].result.value
                IN  /\ v.tokens_used = WordCount(v.text)
                    /\ (\A j \in 1..Len(v.text) : v.text[j] \in Whitespace)
                          => v.tokens_used = 0

C14_Witness ==
    /\ attempts[1] # <<>>
    /\ attempts[1][1].backend = "ollama"
    /\ attempts[1][1].result.ok
    /\ attempts[1][1].result.value.text = <<" ", "hello", " ">>
    /\ attempts[1][1].result.value.tokens_used = 1

\* the two requests differ in stream and in nothing else
DifferOnlyInStream(r1, r2) ==
    /\ pc[r1] # "idle" /\ pc[r2] # "idle"
    /\ request[r1].stream # request[r2].stream
    /\ [request[r1] EXCEPT !.stream = FALSE] = [request[r2] EXCEPT !.stream = FALSE]

\* the state the client was in when request r called it
ClientAtStart(r) ==
    IF posts[r] > 0 THEN "open"
    ELSE IF ~PrimaryOver(r) THEN "unknown"
    ELSE IF EndsWith(PrimaryResult(r).exc.detail, ClientClosedError.msg)
         THEN "closed" ELSE "None"

\* the backends behaved alike towards the two requests, which are at the
\* same await or both over or both cancelled
SameBackendBehaviour(r1, r2) ==
    /\ pc[r1] = pc[r2]
    /\ posts[r1] = posts[r2]
    /\ posted[r1] = posted[r2]
    /\ ClientAtStart(r1) = ClientAtStart(r2)

DetailName(backend) == IF backend = "ollama" THEN "Ollama" ELSE "Bedrock"

\* C16: every failing answer of generate_text has status 500 and a detail
\* that enumerates exactly the attempts the request made, each a failure, by
\* backend name and cause; a non-200 status of the Ollama server is never
\* the status of the answer, it appears in the cause; and with fallback
\* enabled a failure of the primary alone never fails the request.
C16_OnlyTotalFailureReachesCaller ==
    \A r \in Requests :
        /\ outcome[r].kind = "error" =>
              LET recs == AttemptRecords(outcome[r].detail)
              IN  /\ outcome[r].status_code = 500
                  /\ attempts[r] # <<>>
                  /\ Len(recs) = Len(attempts[r])
                  /\ \A i \in 1..Len(attempts[r]) :
                        /\ ~attempts[r][i].result.ok
                        /\ recs[i].backend = DetailName(attempts[r][i].backend)
                        /\ recs[i].cause = str(attempts[r][i].result.exc)
                  /\ ("ok" \in DOMAIN posted[r] /\ posted[r].ok) =>
                        /\ outcome[r].status_code # posted[r].value.status_code
                        /\ posted[r].value.status_code # 200 =>
                              \E k \in 1..Len(outcome[r].detail) :
                                  outcome[r].detail[k]
                                      = ToString(posted[r].value.status_code)
        /\ (BEDROCK_FALLBACK /\ PrimaryFailed(r)) => outcome[r].kind # "error"

C16_Witness ==
    \E r \in Requests :
        /\ "ok" \in DOMAIN posted[r]
        /\ posted[r].ok
        /\ posted[r].value.status_code = 503
        /\ outcome[r].kind = "error"
        /\ outcome[r].status_code = 500
        /\ Len(AttemptRecords(outcome[r].detail)) = 1

\* everything the model keeps for request r
ReqState(r) ==
    <<pc[r], request[r], inflight[r], calls[r], posts[r], payload[r],
      posted[r], attempts[r], outcome[r]>>

\* C17: under every interleaving, a step changes the state of at most one
\* handler (one request or the health check) and leaves every other request
\* as it was; no handler step changes BEDROCK_FALLBACK or http_client (only
\* the lifespan sets the client); and two requests with equal fields that
\* meet the same backend behaviour have the same attempts and outcome.
C17_RequestsIsolated ==
    /\ [][/\ BEDROCK_FALLBACK' = BEDROCK_FALLBACK
          /\ http_client' # http_client =>
                /\ lifespan_pc' # lifespan_pc
                /\ \A r \in Requests : ReqState(r)' = ReqState(r)
                /\ health_vars' = health_vars
          /\ \A r \in Requests :
                ReqState(r)' # ReqState(r) =>
                    /\ \A q \in Requests \ {r} : ReqState(q)' = ReqState(q)
                    /\ health_vars' = health_vars
                    /\ http_client' = http_client]_vars
    /\ [](\A r1, r2 \in Requests :
            (/\ pc[r1] # "idle"
             /\ request[r1] = request[r2]
             /\ SameBackendBehaviour(r1, r2)) =>
                /\ attempts[r1] = attempts[r2]
                /\ outcome[r1] = outcome[r2])

C17_Witness ==
    /\ pc[1] = "ollama_post"
    /\ pc[2] = "bedrock_sleep"
    /\ health_pc = "probing"
    /\ request[1] = request[2]
    /\ posted[2] = Raise(ConnectError)

\* the fields of a complete GenerateResponse
ResultFields == {"text", "model", "tokens_used", "source"}

\* request r has exactly the outcome its position allows
OneOutcome(r) ==
    /\ pc[r] \in {"idle", "ollama_post", "bedrock_sleep"} => outcome[r] = NoOutcome
    /\ pc[r] = "cancelled" => outcome[r] = Cancelled
    /\ pc[r] = "done" =>
          /\ outcome[r].kind \in {"ok", "error"}
          /\ inflight[r] = {}
          /\ outcome[r].kind = "ok" =>
                /\ outcome[r].status_code = 200
                /\ DOMAIN outcome[r].body = ResultFields
                /\ LastAttempt(r).result.ok
                /\ outcome[r].body = LastAttempt(r).result.value
          /\ outcome[r].kind = "error" =>
                /\ outcome[r].status_code = 500
                /\ \A i \in 1..Len(attempts[r]) : ~attempts[r][i].result.ok

\* C18: when every awaited adapter call ends, every request that has started
\* and is not cancelled is eventually over; a request that is over has one
\* outcome, a complete result of its last attempt or a 500 after only failed
\* attempts, never both and never part of a result, and keeps it.
C18_EveryRequestEndsInOneOutcome ==
    /\ [](\A r \in Requests : OneOutcome(r))
    /\ [][\A r \in Requests :
            pc[r] = "done" => (pc'[r] = "done" /\ outcome'[r] = outcome[r])]_vars
    /\ \A r \in Requests :
          (pc[r] \in {"ollama_post", "bedrock_sleep"})
              ~> (pc[r] \in {"done", "cancelled"})

C18_Witness ==
    \E r \in Requests :
        /\ pc[r] = "done"
        /\ Len(attempts[r]) = 2
        /\ posts[r] = 1
        /\ outcome[r].kind = "ok"

\* C19: no backend is tried again: a request calls each adapter at most once,
\* the primary adapter sends at most one POST per call and the placeholder
\* sends none, so a request records at most two attempts, the primary's
\* first; the fallback adapter is called only once the primary's call is over
\* and has failed.
C19_NoRetries ==
    \A r \in Requests :
        /\ calls[r].ollama <= 1
        /\ calls[r].bedrock <= 1
        /\ posts[r] <= calls[r].ollama
        /\ Len(attempts[r]) <= calls[r].ollama + calls[r].bedrock
        /\ \A i \in 1..Len(attempts[r]) :
              attempts[r][i].backend = IF i = 1 THEN "ollama" ELSE "bedrock"
        /\ calls[r].bedrock = 1 =>
              /\ calls[r].ollama = 1
              /\ PrimaryFailed(r)
              /\ "ollama" \notin inflight[r]

C19_Witness ==
    \E r \in Requests :
        /\ pc[r] = "done"
        /\ calls[r] = [ollama |-> 1, bedrock |-> 1]
        /\ posts[r] = 1
        /\ posted[r] = Raise(ReadTimeout)
        /\ Len(attempts[r]) = 2

\* request r was started and its adapter could send no POST: the client was
\* missing or closed
HandledWithoutClient(r) == pc[r] # "idle" /\ posts[r] = 0

\* C20: a request handled while http_client is None or closed fails in the
\* primary adapter like any other primary failure, wrapped in the adapter's
\* 500: with fallback enabled the fallback adapter is called and the request
\* ends with its result, with fallback disabled the request ends with the 500
\* that names the one Ollama attempt; it ends in nothing else.
C20_UnusableClientIsPrimaryFailure ==
    \A r \in Requests :
        HandledWithoutClient(r) =>
            /\ PrimaryFailed(r)
            /\ \E e \in {NoneTypeError("post"), ClientClosedError} :
                  PrimaryResult(r) = Raise(ollama_except(e))
            /\ IF BEDROCK_FALLBACK
               THEN /\ pc[r] \in {"bedrock_sleep", "done", "cancelled"}
                    /\ calls[r].bedrock = 1
                    /\ pc[r] = "done" =>
                          /\ outcome[r].kind = "ok"
                          /\ outcome[r].body.source = "bedrock"
                          /\ Return(outcome[r].body) =
                                generate_with_bedrock_fallback(request[r])
               ELSE /\ pc[r] = "done"
                    /\ calls[r].bedrock = 0
                    /\ outcome[r].kind = "error"
                    /\ outcome[r].status_code = 500
                    /\ Len(attempts[r]) = 1
                    /\ AttemptRecords(outcome[r].detail) =
                          <<[backend |-> "Ollama",
                             cause |-> str(PrimaryResult(r).exc)]>>

C20_Witness ==
    \E r1, r2 \in Requests :
        /\ HandledWithoutClient(r1)
        /\ HandledWithoutClient(r2)
        /\ ClientAtStart(r1) = "None"
        /\ ClientAtStart(r2) = "closed"
        /\ pc[r1] = "done"
        /\ pc[r2] = "done"
====
